---------------------------- MODULE Spec2Model ----------------------------
(***************************************************************************)
(* State-machine model of src/model/net_desc.py: the TF-style SAME padding *)
(* layer, the dense and residual blocks, the 2x upsampler, the HoVerNet    *)
(* encoder and the weight initialisation pass.                             *)
(*                                                                         *)
(* A tensor is abstracted to its channel count c, its spatial extent h x w *)
(* and one representative scalar value v; ok = FALSE is a raised shape     *)
(* error.  The upsampler, whose claim is about individual pixels, works on *)
(* full tensors (a shape and row-major data).                              *)
(***************************************************************************)
EXTENDS Integers, Sequences, FiniteSets, TLC

VARIABLES
    tfpad,      \* the TFSamepaddingLayer object: ksize, stride
    tfpadCall,  \* its forward call: pc, x, padding, ret, conv
    resblk,     \* the ResidualBlock object ("none" before construction)
    resCall,    \* its forward call: pc, idx, input, prev_feat, shortcut, ...
    dense,      \* the DenseBlock object
    denseCall,  \* its forward call
    ups,        \* the UpSample2x forward call
    net,        \* the HoVerNet forward call
    layers,     \* the modules weights_init walks, with their parameters
    initCalls,  \* number of weights_init calls made
    afterFirst  \* the parameters as the first weights_init call left them

vars == <<tfpad, tfpadCall, resblk, resCall, dense, denseCall, ups, net,
          layers, initCalls, afterFirst>>

-----------------------------------------------------------------------------
(* Bounds of the model *)

MaxK == 4
MaxS == 3
MaxDim == 5

Max(a, b) == IF a >= b THEN a ELSE b

Ceil(a, b) == (a + b - 1) \div b

Idle == [pc |-> "off"]

-----------------------------------------------------------------------------
(* Tensors (shape abstraction) and the library layers *)

Tensor(c, h, w, v) == [ok |-> TRUE, c |-> c, h |-> h, w |-> w, v |-> v]

Fault == [ok |-> FALSE, c |-> 0, h |-> 0, w |-> 0, v |-> 0]

\* nn.Conv2d(in_ch, out_ch, ksize, stride=stride, padding=0, bias=False),
\* weight abstracted to the scalar wt
Conv2d(x, in_ch, out_ch, ksize, stride, wt) ==
    IF ~x.ok \/ x.c # in_ch \/ x.h < ksize \/ x.w < ksize THEN Fault
    ELSE Tensor(out_ch, (x.h - ksize) \div stride + 1,
                (x.w - ksize) \div stride + 1, wt * x.v)

\* nn.BatchNorm2d(num_features) with scale g and shift b
BatchNorm2d(x, num_features, g, b) ==
    IF ~x.ok \/ x.c # num_features THEN Fault
    ELSE [x EXCEPT !.v = g * @ + b]

ReLU(x) == IF ~x.ok THEN Fault ELSE [x EXCEPT !.v = Max(@, 0)]

-----------------------------------------------------------------------------
(* TFSamepaddingLayer *)

SamePadTotalNoRemainder(ksize, stride, x) == Max(ksize - stride, 0)

\* total padding, from the input's height only
SamePadTotal(ksize, stride, x) ==
    IF x.h % stride = 0
    THEN Max(ksize - stride, 0)
    ELSE Max(ksize - (x.h % stride), 0)

SamePaddingSwapped(pad) ==
    LET pad_val_start == pad \div 2
        pad_val_end == pad - pad_val_start
    IN <<pad_val_end, pad_val_start, pad_val_end, pad_val_start>>

\* the (left, right, top, bottom) tuple handed to F.pad
SamePadding(pad) ==
    IF pad % 2 = 0
    THEN LET pad_val == pad \div 2
         IN <<pad_val, pad_val, pad_val, pad_val>>
    ELSE LET pad_val_start == pad \div 2
             pad_val_end == pad - pad_val_start
         IN <<pad_val_start, pad_val_end, pad_val_start, pad_val_end>>

\* F.pad(x, padding, "constant", 0): the first pair pads the last axis (width)
FPad(x, padding) ==
    IF ~x.ok THEN Fault
    ELSE [x EXCEPT !.w = @ + padding[1] + padding[2],
                   !.h = @ + padding[3] + padding[4]]

TFSamepaddingLayer_forward(ksize, stride, x) ==
    FPad(x, SamePadding(SamePadTotal(ksize, stride, x)))

padOthers == <<resblk, resCall, dense, denseCall, ups, net, layers,
               initCalls, afterFirst>>

TFPadInit ==
    /\ tfpad \in [ksize : 1..MaxK, stride : 1..MaxS]
    /\ tfpadCall = [pc |-> "idle", x |-> Fault, padding |-> <<0, 0, 0, 0>>,
                    ret |-> Fault, conv |-> Fault]

\* forward(x) on an input of height h and width w
TFPad_Forward ==
    /\ tfpadCall.pc = "idle"
    /\ \E h \in 1..MaxDim, w \in 1..MaxDim :
         LET x == Tensor(1, h, w, 1)
             padding == SamePadding(SamePadTotal(tfpad.ksize, tfpad.stride, x))
         IN tfpadCall' = [pc |-> "padded", x |-> x, padding |-> padding,
                          ret |-> TFSamepaddingLayer_forward(tfpad.ksize, tfpad.stride, x),
                          conv |-> Fault]
    /\ UNCHANGED <<tfpad, padOthers>>

\* the 'valid' convolution the residual unit puts behind the padding layer
TFPad_Conv ==
    /\ tfpadCall.pc = "padded"
    /\ LET y == Conv2d(tfpadCall.ret, 1, 1, tfpad.ksize, tfpad.stride, 1)
       IN tfpadCall' = [tfpadCall EXCEPT !.pc = IF y.ok THEN "conved" ELSE "fault",
                                         !.conv = y]
    /\ UNCHANGED <<tfpad, padOthers>>

TFPad_Return ==
    /\ tfpadCall.pc \in {"conved", "fault"}
    /\ tfpadCall' = [pc |-> "idle", x |-> Fault, padding |-> <<0, 0, 0, 0>>,
                     ret |-> Fault, conv |-> Fault]
    /\ UNCHANGED <<tfpad, padOthers>>

OthersOffPad ==
    /\ resblk = Idle /\ resCall = Idle /\ dense = Idle /\ denseCall = Idle
    /\ ups = Idle /\ net = Idle /\ layers = <<>> /\ initCalls = 0
    /\ afterFirst = <<>>

InitPad == TFPadInit /\ OthersOffPad

NextPad == TFPad_Forward \/ TFPad_Conv \/ TFPad_Return

SpecPad == InitPad /\ [][NextPad]_vars

-----------------------------------------------------------------------------
(* C1: the padding tuple sums to p = max(k - s, 0) when d mod s = 0 and to  *)
(* max(k - d mod s, 0) otherwise, is the same on height and width, and the *)
(* leading amount is floor(p/2), never more than the trailing one.         *)

ClaimedPad(k, s, d) ==
    IF d % s = 0 THEN Max(k - s, 0) ELSE Max(k - (d % s), 0)

C1_PadSplit ==
    tfpadCall.pc = "padded" =>
        LET p == ClaimedPad(tfpad.ksize, tfpad.stride, tfpadCall.x.h)
            pd == tfpadCall.padding
        IN /\ pd[1] + pd[2] = p
           /\ pd[1] = p \div 2
           /\ pd[2] = p - pd[1]
           /\ pd[1] <= pd[2]
           /\ pd[3] = pd[1] /\ pd[4] = pd[2]
           /\ tfpadCall.ret.h = tfpadCall.x.h + p
           /\ tfpadCall.ret.w = tfpadCall.x.w + p

\* an odd total padding from the remainder branch has been split
C1_Witness ==
    /\ tfpadCall.pc = "padded"
    /\ tfpadCall.x.h % tfpad.stride # 0
    /\ tfpadCall.padding[1] < tfpadCall.padding[2]

(* C2: on a square input, padding followed by the valid convolution of the *)
(* same kernel and stride gives a spatial extent of ceil(d / s), and the   *)
(* convolution never faults.                                               *)

C2_SameOutput ==
    tfpadCall.x.h = tfpadCall.x.w =>
        /\ tfpadCall.pc # "fault"
        /\ tfpadCall.pc = "conved" =>
             LET d == tfpadCall.x.h
                 p == tfpadCall.padding[1] + tfpadCall.padding[2]
             IN /\ (d + p - tfpad.ksize) \div tfpad.stride + 1 = Ceil(d, tfpad.stride)
                /\ tfpadCall.conv.h = Ceil(d, tfpad.stride)
                /\ tfpadCall.conv.w = Ceil(d, tfpad.stride)

\* a strided case where the extent is not a multiple of the stride
C2_Witness ==
    /\ tfpadCall.pc = "conved"
    /\ tfpadCall.x.h = tfpadCall.x.w
    /\ tfpad.stride > 1
    /\ tfpadCall.x.h % tfpad.stride # 0
    /\ tfpad.ksize < tfpad.stride

-----------------------------------------------------------------------------
(* ResidualBlock.  Python lists are 0-based: unit_ch[0], unit_ch[1],       *)
(* unit_ch[2] and unit_ch[-1] are unit_ch[1], unit_ch[2], unit_ch[3] and   *)
(* Last(unit_ch) here.                                                     *)

MaxCh == 2
MaxUnits == 2

Last(s) == s[Len(s)]

NoConv == [conv |-> FALSE, in |-> 0, out |-> 0, ksize |-> 0, stride |-> 0,
           bias |-> FALSE]

ConvSpec(in_ch, out_ch, ksize, stride) ==
    [conv |-> TRUE, in |-> in_ch, out |-> out_ch, ksize |-> ksize,
     stride |-> stride, bias |-> FALSE]

\* apply a constructed convolution layer
ConvL(x, l, wt) == Conv2d(x, l.in, l.out, l.ksize, l.stride, wt)

\* x + y with torch's broadcasting: an axis must agree or be 1 on one side
Broadcastable(m, n) == m = n \/ m = 1 \/ n = 1

AddT(x, y) ==
    IF ~x.ok \/ ~y.ok \/ ~Broadcastable(x.c, y.c) \/ ~Broadcastable(x.h, y.h)
       \/ ~Broadcastable(x.w, y.w)
    THEN Fault
    ELSE Tensor(Max(x.c, y.c), Max(x.h, y.h), Max(x.w, y.w), x.v + y.v)

\* one entry of self.units; idx is the 0-based unit index
ResUnit(idx, unit_in_ch, unit_ksize, unit_ch, stride, wt) ==
    [preact    |-> idx # 0,
     preact_bn |-> unit_in_ch,
     conv1     |-> ConvSpec(unit_in_ch, unit_ch[1], unit_ksize[1], 1),
     conv1_bn  |-> unit_ch[1],
     conv2_pad |-> [ksize |-> unit_ksize[2],
                    stride |-> IF idx = 0 THEN stride ELSE 1],
     conv2     |-> ConvSpec(unit_ch[1], unit_ch[2], unit_ksize[2],
                            IF idx = 0 THEN stride ELSE 1),
     conv2_bn  |-> unit_ch[2],
     conv3     |-> ConvSpec(unit_ch[2], unit_ch[3], unit_ksize[3], 1),
     wt        |-> wt]

ShortcutNeededAnd(in_ch, unit_ch, stride) ==
    in_ch # Last(unit_ch) /\ stride # 1

\* the condition under which __init__ builds the projection
ShortcutNeeded(in_ch, unit_ch, stride) ==
    in_ch # Last(unit_ch) \/ stride # 1

ShortcutConvNoStride(in_ch, unit_ch, stride) ==
    ConvSpec(in_ch, Last(unit_ch), 1, 1)

\* nn.Conv2d(in_ch, unit_ch[-1], 1, stride=stride, bias=False)
ShortcutConv(in_ch, unit_ch, stride) ==
    ConvSpec(in_ch, Last(unit_ch), 1, stride)

\* __init__; wt0 stands for the block's (frozen) convolution weights
ResidualBlock_init(in_ch, unit_ksize, unit_ch, unit_count, stride, wt0) ==
    IF Len(unit_ksize) # Len(unit_ch) \/ (unit_count > 0 /\ Len(unit_ch) < 3)
    THEN [pc |-> "error"]
    ELSE [pc       |-> "built",
          nr_unit  |-> unit_count,
          in_ch    |-> in_ch,
          unit_ch  |-> unit_ch,
          unit_ksize |-> unit_ksize,
          stride   |-> stride,
          units    |-> [i \in 1..unit_count |->
                          ResUnit(i - 1, IF i = 1 THEN in_ch ELSE Last(unit_ch),
                                  unit_ksize, unit_ch, stride, wt0 * i)],
          shortcut |-> IF ShortcutNeeded(in_ch, unit_ch, stride)
                       THEN ShortcutConv(in_ch, unit_ch, stride)
                       ELSE NoConv,
          blk_bna  |-> IF unit_count = 0 THEN in_ch ELSE Last(unit_ch)]

\* self.units[idx](x): the unit's layers in order
UnitForward(u, x) ==
    LET a == IF u.preact THEN ReLU(BatchNorm2d(x, u.preact_bn, 1, 0)) ELSE x
        b == ReLU(BatchNorm2d(ConvL(a, u.conv1, 1), u.conv1_bn, 1, 0))
        p == TFSamepaddingLayer_forward(u.conv2_pad.ksize, u.conv2_pad.stride, b)
        c == ReLU(BatchNorm2d(ConvL(p, u.conv2, 1), u.conv2_bn, 1, 0))
    IN ConvL(c, u.conv3, u.wt)

\* the first statement of forward
ResShortcut(blk, prev_feat) ==
    IF ~blk.shortcut.conv THEN prev_feat ELSE ConvL(prev_feat, blk.shortcut, 3)

ResStepSingleSkip(blk, idx, prev_feat, shortcut) ==
    LET new_feat == UnitForward(blk.units[idx + 1], prev_feat)
    IN [new_feat |-> new_feat, prev_feat |-> AddT(new_feat, shortcut),
        shortcut |-> shortcut]

\* one pass of the loop body, idx 0-based
ResStep(blk, idx, prev_feat, shortcut) ==
    LET new_feat == UnitForward(blk.units[idx + 1], prev_feat)
        sum == AddT(new_feat, shortcut)
    IN [new_feat |-> new_feat, prev_feat |-> sum, shortcut |-> sum]

\* the block's closing normalize + activate
BlkBna(blk, x) == ReLU(BatchNorm2d(x, blk.blk_bna, 2, 1))

KLists == [1..3 -> {1, 2, 3}] \cup {<<1, 3>>, <<1, 3, 1, 1>>}

ChLists == [1..3 -> 1..MaxCh] \cup {<<1, 2>>, <<1, 1, 1, 2>>, <<2, 1, 2, 2>>}

Weights == {-1, 2}

InputVals == {-1, 2}

resOthers == <<tfpad, tfpadCall, dense, denseCall, ups, net, layers,
               initCalls, afterFirst>>

ResIdleCall ==
    [pc |-> "idle", idx |-> 0, input |-> Fault, prev_feat |-> Fault,
     shortcut |-> Fault, shortcut0 |-> Fault, reads |-> <<>>, news |-> <<>>,
     adds |-> <<>>, bna |-> 0, feat |-> Fault]

\* ResidualBlock(in_ch, unit_ksize, unit_ch, unit_count, stride)
Res_Construct ==
    /\ resblk = Idle
    /\ \E in_ch \in 1..MaxCh, unit_ksize \in KLists, unit_ch \in ChLists,
          unit_count \in 1..MaxUnits, stride \in 1..MaxS, wt0 \in Weights :
         resblk' = ResidualBlock_init(in_ch, unit_ksize, unit_ch, unit_count,
                                      stride, wt0)
    /\ resCall' = ResIdleCall
    /\ UNCHANGED resOthers

\* forward(prev_feat) up to the loop: the shortcut is taken
Res_Forward ==
    /\ resblk.pc = "built"
    /\ resCall.pc = "idle"
    /\ \E c \in 1..MaxCh, d \in 1..MaxDim, v \in InputVals :
         LET x == Tensor(c, d, d, v)
             sc == ResShortcut(resblk, x)
         IN resCall' = [ResIdleCall EXCEPT
                          !.pc = IF sc.ok THEN "loop" ELSE "fault",
                          !.input = x, !.prev_feat = x, !.shortcut = sc,
                          !.shortcut0 = sc]
    /\ UNCHANGED <<resblk, resOthers>>

\* one iteration of `for idx in range(0, len(self.units))`
Res_Unit ==
    /\ resCall.pc = "loop"
    /\ resCall.idx < Len(resblk.units)
    /\ LET r == ResStep(resblk, resCall.idx, resCall.prev_feat, resCall.shortcut)
       IN resCall' = [resCall EXCEPT
                        !.pc = IF r.prev_feat.ok THEN "loop" ELSE "fault",
                        !.idx = @ + 1,
                        !.reads = Append(@, resCall.prev_feat),
                        !.news = Append(@, r.new_feat),
                        !.adds = Append(@, <<r.new_feat, resCall.shortcut>>),
                        !.prev_feat = r.prev_feat,
                        !.shortcut = r.shortcut]
    /\ UNCHANGED <<resblk, resOthers>>

\* feat = self.blk_bna(prev_feat); return feat
Res_Bna ==
    /\ resCall.pc = "loop"
    /\ resCall.idx = Len(resblk.units)
    /\ LET feat == BlkBna(resblk, resCall.prev_feat)
       IN resCall' = [resCall EXCEPT
                        !.pc = IF feat.ok THEN "done" ELSE "fault",
                        !.bna = @ + 1,
                        !.feat = feat]
    /\ UNCHANGED <<resblk, resOthers>>

Res_Return ==
    /\ resCall.pc \in {"done", "fault"}
    /\ resCall' = ResIdleCall
    /\ UNCHANGED <<resblk, resOthers>>

InitRes ==
    /\ resblk = Idle /\ resCall = Idle
    /\ tfpad = Idle /\ tfpadCall = Idle /\ dense = Idle /\ denseCall = Idle
    /\ ups = Idle /\ net = Idle /\ layers = <<>> /\ initCalls = 0
    /\ afterFirst = <<>>

NextRes == Res_Construct \/ Res_Forward \/ Res_Unit \/ Res_Bna \/ Res_Return

SpecRes == InitRes /\ [][NextRes]_vars

-----------------------------------------------------------------------------
(* C3: the shortcut is the identity (no projection is built) exactly when  *)
(* in_ch equals the last configured channel width and stride is 1;         *)
(* otherwise a bias-free 1x1 projection from in_ch to that width exists    *)
(* and uses the block's stride.                                            *)

C3_Shortcut ==
    resblk.pc = "built" =>
        /\ ~resblk.shortcut.conv <=>
             (resblk.in_ch = Last(resblk.unit_ch) /\ resblk.stride = 1)
        /\ resblk.shortcut.conv =>
             /\ resblk.shortcut.ksize = 1
             /\ resblk.shortcut.in = resblk.in_ch
             /\ resblk.shortcut.out = Last(resblk.unit_ch)
             /\ resblk.shortcut.stride = resblk.stride
             /\ ~resblk.shortcut.bias
        /\ (resCall.pc = "loop" /\ ~resblk.shortcut.conv) =>
             resCall.shortcut0 = resCall.input

\* a forward through an identity shortcut, on a block with matching widths
C3_Witness ==
    /\ resblk.pc = "built"
    /\ ~resblk.shortcut.conv
    /\ resCall.pc = "done"
    /\ resCall.shortcut0 = resCall.input

(* C9: the residual is chained: unit 0 reads the raw input, every later    *)
(* unit reads the running sum, each sum is the unit's output plus the      *)
(* previous sum (the shortcut path for unit 0), so the accumulated tensor  *)
(* is shortcut_path(input) + new_0 + ... + new_{N-1}; blk_bna is applied   *)
(* once, after the last unit.                                              *)

RECURSIVE SumV(_, _)
SumV(news, n) == IF n = 0 THEN 0 ELSE SumV(news, n - 1) + news[n].v

C9_Telescoping ==
    resCall.pc \in {"loop", "done"} =>
        /\ Len(resCall.news) = resCall.idx
        /\ Len(resCall.reads) = resCall.idx
        /\ \A i \in 1..resCall.idx :
             /\ resCall.news[i] = UnitForward(resblk.units[i], resCall.reads[i])
             /\ i = 1 => resCall.reads[i] = resCall.input
             /\ i > 1 => resCall.reads[i].v =
                           resCall.shortcut0.v + SumV(resCall.news, i - 1)
             /\ resCall.adds[i][1] = resCall.news[i]
             /\ resCall.adds[i][2].v =
                  resCall.shortcut0.v + SumV(resCall.news, i - 1)
        /\ resCall.prev_feat.v =
             IF resCall.idx = 0 THEN resCall.input.v
             ELSE resCall.shortcut0.v + SumV(resCall.news, resCall.idx)
        /\ resCall.idx > 0 => resCall.shortcut = resCall.prev_feat
        /\ resCall.pc = "loop" => resCall.bna = 0
        /\ resCall.pc = "done" =>
             /\ resCall.idx = resblk.nr_unit
             /\ resCall.bna = 1
             /\ resCall.feat = BlkBna(resblk, resCall.prev_feat)

\* two units behind a projection shortcut whose value differs from the input's
C9_Witness ==
    /\ resCall.pc = "done"
    /\ resCall.idx >= 2
    /\ resblk.shortcut.conv
    /\ resCall.shortcut0.v # resCall.input.v
    /\ resCall.news[1].v # 0 /\ resCall.news[2].v # 0

(* C10: on a square input with in_ch channels, every addition in forward  *)
(* joins a unit output and a running shortcut of the same channel count    *)
(* and the same spatial extent ceil(d / stride), no shape error is raised, *)
(* and blk_bna's width is the accumulated tensor's.                        *)

ShapesAgree ==
    /\ resCall.pc # "fault"
    /\ \A i \in 1..Len(resCall.adds) :
         LET new == resCall.adds[i][1]
             sc == resCall.adds[i][2]
             e == Ceil(resCall.input.h, resblk.stride)
         IN /\ new.ok /\ sc.ok
            /\ new.c = sc.c
            /\ new.h = e /\ new.w = e /\ sc.h = e /\ sc.w = e
    /\ resCall.pc = "done" =>
         /\ resblk.blk_bna = resCall.prev_feat.c
         /\ resCall.feat.c = Last(resblk.unit_ch)
         /\ resCall.feat.h = Ceil(resCall.input.h, resblk.stride)

InputAsConfigured ==
    /\ resblk.pc = "built"
    /\ resCall.pc # "idle"
    /\ resCall.input.c = resblk.in_ch

\* the claim as stated: any kernel-size and channel lists of equal length
C10_AnyLists == InputAsConfigured => ShapesAgree

\* as amended: three-entry lists with 1x1 first and third convolutions
C10_Bottleneck ==
    (/\ InputAsConfigured
     /\ Len(resblk.unit_ksize) = 3
     /\ resblk.unit_ksize[1] = 1
     /\ resblk.unit_ksize[3] = 1) => ShapesAgree

\* a strided block of two units on an extent the stride does not divide
C10_Witness ==
    /\ InputAsConfigured
    /\ Len(resblk.unit_ksize) = 3
    /\ resblk.unit_ksize[1] = 1 /\ resblk.unit_ksize[3] = 1
    /\ resblk.unit_ksize[2] = 3
    /\ resCall.pc = "done"
    /\ resCall.idx = 2
    /\ resblk.stride = 2
    /\ resCall.input.h % 2 = 1
    /\ resblk.in_ch # Last(resblk.unit_ch)

-----------------------------------------------------------------------------
(* HoVerNet: the encoder.  Its claims are about shapes, so the units'      *)
(* convolution weights are taken as 0, which keeps the scalar small.       *)

MaxImg == 24

HoVerNet_initPlainD1(input_ch) ==
    [conv0    |-> ConvSpec(input_ch, 64, 7, 1),
     conv0_bn |-> 64,
     d0 |-> ResidualBlock_init(64, <<1, 3, 1>>, <<64, 64, 256>>, 3, 1, 0),
     d1 |-> ResidualBlock_init(256, <<1, 3, 1>>, <<128, 128, 512>>, 4, 1, 0),
     d2 |-> ResidualBlock_init(512, <<1, 3, 1>>, <<256, 256, 1024>>, 6, 2, 0),
     d3 |-> ResidualBlock_init(1024, <<1, 3, 1>>, <<512, 512, 2048>>, 3, 2, 0),
     conv_bot |-> ConvSpec(2048, 1024, 1, 1)]

\* __init__: the layers the encoder owns
HoVerNet_init(input_ch) ==
    [conv0    |-> ConvSpec(input_ch, 64, 7, 1),
     conv0_bn |-> 64,
     d0 |-> ResidualBlock_init(64, <<1, 3, 1>>, <<64, 64, 256>>, 3, 1, 0),
     d1 |-> ResidualBlock_init(256, <<1, 3, 1>>, <<128, 128, 512>>, 4, 2, 0),
     d2 |-> ResidualBlock_init(512, <<1, 3, 1>>, <<256, 256, 1024>>, 6, 2, 0),
     d3 |-> ResidualBlock_init(1024, <<1, 3, 1>>, <<512, 512, 2048>>, 3, 2, 0),
     conv_bot |-> ConvSpec(2048, 1024, 1, 1)]

InputChannels == {1, 3}

ImgSizes == (1..MaxImg) \cup {270}

PixelVals == {0, 255}

netOthers == <<tfpad, tfpadCall, resblk, resCall, dense, denseCall, ups,
               layers, initCalls, afterFirst>>

NetIdleCall(model) ==
    [pc |-> "idle", model |-> model, input |-> Fault, cur |-> Fault,
     phase |-> "call", idx |-> 0, prev_feat |-> Fault, shortcut |-> Fault,
     trace |-> <<>>]

\* the stage that consumes a stage's output
StageAfter(pc) ==
    CASE pc = "d0" -> "d1"
      [] pc = "d1" -> "d2"
      [] pc = "d2" -> "d3"
      [] pc = "d3" -> "conv_bot"

\* forward(imgs): imgs = imgs / 255.0
Net_Forward ==
    /\ net.pc = "idle"
    /\ \E c \in InputChannels, h \in ImgSizes, dw \in {0, 1}, v \in PixelVals :
         net' = [net EXCEPT !.pc = "conv0",
                            !.input = Tensor(c, h, h + dw, v),
                            !.cur = Tensor(c, h, h + dw, v \div 255)]
    /\ UNCHANGED netOthers

\* d0 = self.conv0(imgs)
Net_Conv0 ==
    /\ net.pc = "conv0"
    /\ LET y == ReLU(BatchNorm2d(ConvL(net.cur, net.model.conv0, 1),
                                 net.model.conv0_bn, 1, 0))
       IN net' = [net EXCEPT !.pc = IF y.ok THEN "d0" ELSE "fault",
                             !.cur = y,
                             !.trace = Append(@, y)]
    /\ UNCHANGED netOthers

\* self.d0(d0) ... self.d3(d2): the stage's block takes its shortcut
Net_BlockShortcut ==
    /\ net.pc \in {"d0", "d1", "d2", "d3"}
    /\ net.phase = "call"
    /\ LET sc == ResShortcut(net.model[net.pc], net.cur)
       IN net' = [net EXCEPT !.pc = IF sc.ok THEN @ ELSE "fault",
                             !.phase = "loop", !.idx = 0,
                             !.prev_feat = net.cur, !.shortcut = sc]
    /\ UNCHANGED netOthers

\* one unit of the stage's block
Net_BlockUnit ==
    /\ net.pc \in {"d0", "d1", "d2", "d3"}
    /\ net.phase = "loop"
    /\ net.idx < Len(net.model[net.pc].units)
    /\ LET r == ResStep(net.model[net.pc], net.idx, net.prev_feat, net.shortcut)
       IN net' = [net EXCEPT !.pc = IF r.prev_feat.ok THEN @ ELSE "fault",
                             !.idx = @ + 1,
                             !.prev_feat = r.prev_feat,
                             !.shortcut = r.shortcut]
    /\ UNCHANGED netOthers

\* the stage's block closes with blk_bna and returns to HoVerNet.forward
Net_BlockBna ==
    /\ net.pc \in {"d0", "d1", "d2", "d3"}
    /\ net.phase = "loop"
    /\ net.idx = Len(net.model[net.pc].units)
    /\ LET y == BlkBna(net.model[net.pc], net.prev_feat)
       IN net' = [net EXCEPT !.pc = IF y.ok THEN StageAfter(@) ELSE "fault",
                             !.phase = "call", !.idx = 0,
                             !.prev_feat = Fault, !.shortcut = Fault,
                             !.cur = y,
                             !.trace = Append(@, y)]
    /\ UNCHANGED netOthers

\* d3 = self.conv_bot(d3); return d3
Net_ConvBot ==
    /\ net.pc = "conv_bot"
    /\ LET y == ConvL(net.cur, net.model.conv_bot, 1)
       IN net' = [net EXCEPT !.pc = IF y.ok THEN "done" ELSE "fault",
                             !.cur = y,
                             !.trace = Append(@, y)]
    /\ UNCHANGED netOthers

Net_Return ==
    /\ net.pc \in {"done", "fault"}
    /\ net' = NetIdleCall(net.model)
    /\ UNCHANGED netOthers

InitNet ==
    /\ \E input_ch \in InputChannels : net = NetIdleCall(HoVerNet_init(input_ch))
    /\ tfpad = Idle /\ tfpadCall = Idle /\ resblk = Idle /\ resCall = Idle
    /\ dense = Idle /\ denseCall = Idle /\ ups = Idle /\ layers = <<>>
    /\ initCalls = 0 /\ afterFirst = <<>>

NextNet ==
    \/ Net_Forward \/ Net_Conv0 \/ Net_BlockShortcut \/ Net_BlockUnit
    \/ Net_BlockBna \/ Net_ConvBot \/ Net_Return

SpecNet == InitNet /\ [][NextNet]_vars

-----------------------------------------------------------------------------
(* C6: on a square input of extent H >= 7 with input_ch channels, forward  *)
(* runs stem, stage 0..3 and bottleneck in order, with channel widths 64,  *)
(* 256, 512, 1024, 2048, 1024 and extents H-6, H-6, ceil((H-6)/2),         *)
(* ceil((H-6)/4), ceil((H-6)/8), ceil((H-6)/8); H = 270 gives 33.          *)

NetSquareInput ==
    /\ net.pc # "idle"
    /\ net.input.h = net.input.w
    /\ net.input.h >= 7
    /\ net.input.c = net.model.conv0.in

ClaimedWidths == <<64, 256, 512, 1024, 2048, 1024>>

ClaimedExtents(H) ==
    <<H - 6, H - 6, Ceil(H - 6, 2), Ceil(H - 6, 4), Ceil(H - 6, 8),
      Ceil(H - 6, 8)>>

C6_EncoderShapes ==
    NetSquareInput =>
        /\ net.pc # "fault"
        /\ \A i \in 1..Len(net.trace) :
             /\ net.trace[i].ok
             /\ net.trace[i].c = ClaimedWidths[i]
             /\ net.trace[i].h = ClaimedExtents(net.input.h)[i]
             /\ net.trace[i].w = ClaimedExtents(net.input.h)[i]
        /\ net.pc = "done" =>
             /\ Len(net.trace) = 6
             /\ net.cur = net.trace[6]
             /\ net.cur.c = 1024
             /\ net.cur.h = Ceil(net.input.h - 6, 8)
             /\ net.input.h = 270 => (net.cur.h = 33 /\ net.cur.w = 33)

\* the 270 x 270 input has been carried to the bottleneck's output
C6_Witness ==
    /\ NetSquareInput
    /\ net.pc = "done"
    /\ net.input.h = 270
    /\ net.cur.h = 33

-----------------------------------------------------------------------------
(* DenseBlock.  unit_ch[0] and unit_ch[1] are unit_ch[1] and unit_ch[2]    *)
(* here.                                                                   *)

\* nn.Conv2d refuses a group count that does not divide both widths
GroupsOk(in_ch, out_ch, groups) == in_ch % groups = 0 /\ out_ch % groups = 0

DenseGrowthFirst(unit_ch) == unit_ch[1]

\* unit_in_ch += unit_ch[1]
DenseGrowth(unit_ch) == unit_ch[2]

\* one entry of self.units; unit_in_ch is the width accumulated so far
DenseUnit(unit_in_ch, unit_ksize, unit_ch, split) ==
    [preact_bn |-> unit_in_ch,
     conv1     |-> ConvSpec(unit_in_ch, unit_ch[1], unit_ksize[1], 1),
     conv1_bn  |-> unit_ch[1],
     conv2     |-> ConvSpec(unit_ch[1], unit_ch[2], unit_ksize[2], 1),
     groups    |-> split]

DenseBlock_init(in_ch, unit_ksize, unit_ch, unit_count, split) ==
    IF \/ Len(unit_ksize) # Len(unit_ch)
       \/ (unit_count > 0 /\ Len(unit_ch) < 2)
       \/ (unit_count > 0 /\ ~GroupsOk(unit_ch[1], unit_ch[2], split))
    THEN [pc |-> "error"]
    ELSE [pc      |-> "built",
          nr_unit |-> unit_count,
          in_ch   |-> in_ch,
          unit_ch |-> unit_ch,
          units   |-> [i \in 1..unit_count |->
                         DenseUnit(in_ch + (i - 1) * DenseGrowth(unit_ch),
                                   unit_ksize, unit_ch, split)],
          blk_bna |-> in_ch + unit_count * DenseGrowth(unit_ch)]

\* self.units[idx](x)
DenseUnitForward(u, x) ==
    LET a == ReLU(BatchNorm2d(x, u.preact_bn, 1, 0))
        b == ReLU(BatchNorm2d(ConvL(a, u.conv1, 1), u.conv1_bn, 1, 0))
    IN ConvL(b, u.conv2, 1)

\* utils.crop_to_shape(x, y): x centre-cropped to y's spatial extent
CropToShape(x, y) ==
    IF ~x.ok \/ ~y.ok \/ x.h < y.h \/ x.w < y.w THEN Fault
    ELSE [x EXCEPT !.h = y.h, !.w = y.w]

\* torch.cat([x, y], dim=1)
CatChannels(x, y) ==
    IF ~x.ok \/ ~y.ok \/ x.h # y.h \/ x.w # y.w THEN Fault
    ELSE Tensor(x.c + y.c, x.h, x.w, x.v + y.v)

\* one pass of the loop body
DenseStep(blk, idx, prev_feat) ==
    LET new_feat == DenseUnitForward(blk.units[idx + 1], prev_feat)
    IN CatChannels(CropToShape(prev_feat, new_feat), new_feat)

DKLists == [1..2 -> {1, 3}] \cup {<<1, 3, 1>>, <<1>>}

DChLists == [1..2 -> 1..MaxCh] \cup {<<2, 1, 2>>, <<1, 2, 2>>, <<2>>}

Splits == {1, 2}

denseOthers == <<tfpad, tfpadCall, resblk, resCall, ups, net, layers,
                 initCalls, afterFirst>>

DenseIdleCall ==
    [pc |-> "idle", idx |-> 0, input |-> Fault, prev_feat |-> Fault,
     widths |-> <<>>, feat |-> Fault]

\* DenseBlock(in_ch, unit_ksize, unit_ch, unit_count, split)
Dense_Construct ==
    /\ dense = Idle
    /\ \E in_ch \in 1..MaxCh, unit_ksize \in DKLists, unit_ch \in DChLists,
          unit_count \in 1..MaxUnits, split \in Splits :
         dense' = DenseBlock_init(in_ch, unit_ksize, unit_ch, unit_count, split)
    /\ denseCall' = DenseIdleCall
    /\ UNCHANGED denseOthers

\* forward(prev_feat)
Dense_Forward ==
    /\ dense.pc = "built"
    /\ denseCall.pc = "idle"
    /\ \E c \in 1..MaxCh, d \in 1..MaxDim :
         denseCall' = [DenseIdleCall EXCEPT !.pc = "loop",
                                            !.input = Tensor(c, d, d, 1),
                                            !.prev_feat = Tensor(c, d, d, 1)]
    /\ UNCHANGED <<dense, denseOthers>>

\* one iteration of `for idx in range(self.nr_unit)`
Dense_Unit ==
    /\ denseCall.pc = "loop"
    /\ denseCall.idx < dense.nr_unit
    /\ LET y == DenseStep(dense, denseCall.idx, denseCall.prev_feat)
       IN denseCall' = [denseCall EXCEPT
                          !.pc = IF y.ok THEN "loop" ELSE "fault",
                          !.idx = @ + 1,
                          !.widths = Append(@, denseCall.prev_feat.c),
                          !.prev_feat = y]
    /\ UNCHANGED <<dense, denseOthers>>

\* prev_feat = self.blk_bna(prev_feat); return prev_feat
Dense_Bna ==
    /\ denseCall.pc = "loop"
    /\ denseCall.idx = dense.nr_unit
    /\ LET y == ReLU(BatchNorm2d(denseCall.prev_feat, dense.blk_bna, 2, 1))
       IN denseCall' = [denseCall EXCEPT
                          !.pc = IF y.ok THEN "done" ELSE "fault",
                          !.feat = y]
    /\ UNCHANGED <<dense, denseOthers>>

Dense_Return ==
    /\ denseCall.pc \in {"done", "fault"}
    /\ denseCall' = DenseIdleCall
    /\ UNCHANGED <<dense, denseOthers>>

InitDense ==
    /\ dense = Idle /\ denseCall = Idle
    /\ tfpad = Idle /\ tfpadCall = Idle /\ resblk = Idle /\ resCall = Idle
    /\ ups = Idle /\ net = Idle /\ layers = <<>> /\ initCalls = 0
    /\ afterFirst = <<>>

NextDense ==
    Dense_Construct \/ Dense_Forward \/ Dense_Unit \/ Dense_Bna \/ Dense_Return

SpecDense == InitDense /\ [][NextDense]_vars

-----------------------------------------------------------------------------
(* C4: a constructed DenseBlock with N units has an output (and blk_bna)   *)
(* width of in_ch + N x g and feeds unit i a width of in_ch + i x g, where *)
(* g is the width each unit adds; the claim takes g to be the last         *)
(* configured channel width.                                               *)

DenseWidths(g) ==
    dense.pc = "built" =>
        /\ dense.blk_bna = dense.in_ch + dense.nr_unit * g
        /\ \A i \in 1..dense.nr_unit :
             dense.units[i].preact_bn = dense.in_ch + (i - 1) * g
        /\ (denseCall.pc \in {"loop", "done"} /\ denseCall.input.c = dense.in_ch) =>
             /\ denseCall.prev_feat.c = dense.in_ch + denseCall.idx * g
             /\ \A i \in 1..Len(denseCall.widths) :
                  denseCall.widths[i] = dense.in_ch + (i - 1) * g
        /\ denseCall.pc = "done" =>
             denseCall.feat.c = dense.in_ch + dense.nr_unit * g

\* the claim as stated: g is the last entry of the channel list
C4_LastWidth == dense.pc = "built" => DenseWidths(Last(dense.unit_ch))

\* as amended: g is unit_ch[1], the width of the unit's second convolution
C4_SecondWidth == dense.pc = "built" => DenseWidths(dense.unit_ch[2])

\* a forward through two units has reached the block's output
C4_Witness ==
    /\ dense.pc = "built"
    /\ dense.nr_unit = 2
    /\ denseCall.pc = "done"
    /\ denseCall.input.c = dense.in_ch
    /\ denseCall.feat.c = dense.in_ch + 2 * dense.unit_ch[2]

-----------------------------------------------------------------------------
(* UpSample2x, on full tensors: a shape and the elements in row-major      *)
(* order.  Indices are 0-based as in the source; sequences are 1-based.    *)

MaxBC == 2
MaxHW == 3

RECURSIVE Prod(_)
Prod(shape) == IF shape = <<>> THEN 1 ELSE Head(shape) * Prod(Tail(shape))

\* number of elements one step along axis k (1-based) skips
AxisStride(shape, k) == Prod(SubSeq(shape, k + 1, Len(shape)))

Unravel(n, shape) ==
    [k \in 1..Len(shape) |-> (n \div AxisStride(shape, k)) % shape[k]]

RECURSIVE RavelFrom(_, _, _)
RavelFrom(idx, shape, k) ==
    IF k > Len(shape) THEN 0
    ELSE idx[k] * AxisStride(shape, k) + RavelFrom(idx, shape, k + 1)

Ravel(idx, shape) == RavelFrom(idx, shape, 1)

\* t[idx] for a 0-based multi-index
At(t, idx) == t.data[Ravel(idx, t.shape) + 1]

\* np.ones((2, 2)) registered as the buffer unpool_mat
UnpoolMat == [shape |-> <<2, 2>>, data |-> <<1, 1, 1, 1>>]

\* t.unsqueeze(-1)
UnsqueezeLast(t) == [t EXCEPT !.shape = Append(@, 1)]

\* t.unsqueeze(0)
UnsqueezeFirst(t) == [t EXCEPT !.shape = <<1>> \o @]

RECURSIVE DotFrom(_, _, _, _, _, _)
DotFrom(x, mat, n, m, K, k) ==
    IF k >= K THEN 0
    ELSE x.data[n * K + k + 1] * mat.data[k * (Prod(mat.shape) \div K) + m + 1]
         + DotFrom(x, mat, n, m, K, k + 1)

\* torch.tensordot(x, mat, dims=1): x's last axis against mat's first
Tensordot1(x, mat) ==
    LET K == Last(x.shape)
        M == Prod(mat.shape) \div K
        N == Prod(x.shape) \div K
    IN [shape |-> SubSeq(x.shape, 1, Len(x.shape) - 1) \o Tail(mat.shape),
        data  |-> [e \in 1..(N * M) |->
                     DotFrom(x, mat, (e - 1) \div M, (e - 1) % M, K, 0)]]

IdentityPerm == <<0, 1, 2, 3, 4, 5>>

\* the axis order handed to ret.permute
UnpoolPerm == <<0, 1, 2, 4, 3, 5>>

\* t.permute(perm): axis k of the result is axis perm[k] of t
Permute(t, perm) ==
    LET shape == [k \in 1..Len(perm) |-> t.shape[perm[k] + 1]]
    IN [shape |-> shape,
        data  |-> [e \in 1..Prod(shape) |->
                     LET j == Unravel(e - 1, shape)
                         i == [a \in 1..Len(perm) |->
                                 j[CHOOSE k \in 1..Len(perm) : perm[k] + 1 = a]]
                     IN At(t, i)]]

\* t.reshape((-1, c, h, w)): the leading extent is inferred
ReshapeInferFirst(t, c, h, w) ==
    [shape |-> <<Prod(t.shape) \div (c * h * w), c, h, w>>, data |-> t.data]

\* inputs: element e of the row-major data is base + step * e
InputTensor(shape, base, step) ==
    [shape |-> shape, data |-> [e \in 1..Prod(shape) |-> base + step * (e - 1)]]

Fillings == {<<0, 1>>, <<7, -1>>, <<3, 0>>}

upOthers == <<tfpad, tfpadCall, resblk, resCall, dense, denseCall, net,
              layers, initCalls, afterFirst>>

NoTensor == [shape |-> <<>>, data |-> <<>>]

UpIdleCall ==
    [pc |-> "idle", unpool_mat |-> UnpoolMat, input |-> NoTensor,
     input_shape |-> <<>>, x |-> NoTensor, mat |-> NoTensor, ret |-> NoTensor]

\* forward(x): input_shape = list(x.shape)
Up_Forward ==
    /\ ups.pc = "idle"
    /\ \E b \in 1..MaxBC, c \in 1..MaxBC, h \in 1..MaxHW, w \in 1..MaxHW,
          f \in Fillings :
         LET x == InputTensor(<<b, c, h, w>>, f[1], f[2])
         IN ups' = [ups EXCEPT !.pc = "unsqueeze", !.input = x,
                               !.input_shape = x.shape, !.x = x]
    /\ UNCHANGED upOthers

\* x = x.unsqueeze(-1); mat = self.unpool_mat.unsqueeze(0)
Up_Unsqueeze ==
    /\ ups.pc = "unsqueeze"
    /\ ups' = [ups EXCEPT !.pc = "tensordot",
                          !.x = UnsqueezeLast(ups.x),
                          !.mat = UnsqueezeFirst(ups.unpool_mat)]
    /\ UNCHANGED upOthers

\* ret = torch.tensordot(x, mat, dims=1)
Up_Tensordot ==
    /\ ups.pc = "tensordot"
    /\ ups' = [ups EXCEPT !.pc = "permute", !.ret = Tensordot1(ups.x, ups.mat)]
    /\ UNCHANGED upOthers

\* ret = ret.permute(0, 1, 2, 4, 3, 5)
Up_Permute ==
    /\ ups.pc = "permute"
    /\ ups' = [ups EXCEPT !.pc = "reshape", !.ret = Permute(ups.ret, UnpoolPerm)]
    /\ UNCHANGED upOthers

\* ret = ret.reshape((-1, input_shape[1], input_shape[2] * 2, input_shape[3] * 2))
Up_Reshape ==
    /\ ups.pc = "reshape"
    /\ ups' = [ups EXCEPT !.pc = "done",
                          !.ret = ReshapeInferFirst(ups.ret, ups.input_shape[2],
                                                    ups.input_shape[3] * 2,
                                                    ups.input_shape[4] * 2)]
    /\ UNCHANGED upOthers

Up_Return ==
    /\ ups.pc = "done"
    /\ ups' = UpIdleCall
    /\ UNCHANGED upOthers

InitUp ==
    /\ ups = UpIdleCall
    /\ tfpad = Idle /\ tfpadCall = Idle /\ resblk = Idle /\ resCall = Idle
    /\ dense = Idle /\ denseCall = Idle /\ net = Idle /\ layers = <<>>
    /\ initCalls = 0 /\ afterFirst = <<>>

NextUp ==
    \/ Up_Forward \/ Up_Unsqueeze \/ Up_Tensordot \/ Up_Permute \/ Up_Reshape
    \/ Up_Return

SpecUp == InitUp /\ [][NextUp]_vars

-----------------------------------------------------------------------------
(* C5: for x of shape (B, C, H, W) the result y has shape (B, C, 2H, 2W)   *)
(* and y[b, c, i, j] = x[b, c, floor(i/2), floor(j/2)] for every index.    *)

C5_Replicates ==
    ups.pc = "done" =>
        LET B == ups.input.shape[1]
            C == ups.input.shape[2]
            H == ups.input.shape[3]
            W == ups.input.shape[4]
        IN /\ ups.ret.shape = <<B, C, 2 * H, 2 * W>>
           /\ Len(ups.ret.data) = B * C * 2 * H * 2 * W
           /\ \A b \in 0..(B - 1), c \in 0..(C - 1), i \in 0..(2 * H - 1),
                 j \in 0..(2 * W - 1) :
                At(ups.ret, <<b, c, i, j>>)
                  = At(ups.input, <<b, c, i \div 2, j \div 2>>)

\* an input of several rows, columns, channels and entries, all values distinct
C5_Witness ==
    /\ ups.pc = "done"
    /\ ups.input.shape = <<2, 2, 2, 3>>
    /\ ups.input.data[1] # ups.input.data[2]
    /\ At(ups.ret, <<1, 1, 3, 5>>) = At(ups.input, <<1, 1, 1, 2>>)

-----------------------------------------------------------------------------
(* Net.weights_init.  A module is its class name (a sequence of            *)
(* characters), whether it is an nn.Conv2d, and its weight and bias; a     *)
(* bias of None is has_bias = FALSE.  kaiming_normal_ draws at random: any *)
(* value of DrawVals may come out.                                         *)

MaxInitCalls == 2

UpperToLower ==
    [c \in {"B", "C", "L", "N", "R", "U"} |->
       CASE c = "B" -> "b" [] c = "C" -> "c" [] c = "L" -> "l"
         [] c = "N" -> "n" [] c = "R" -> "r" [] c = "U" -> "u"]

\* str.lower()
Lower(name) ==
    [i \in 1..Len(name) |->
       IF name[i] \in DOMAIN UpperToLower THEN UpperToLower[name[i]] ELSE name[i]]

\* sub in name
Contains(sub, name) ==
    \E i \in 0..(Len(name) - Len(sub)) : SubSeq(name, i + 1, i + Len(sub)) = sub

Conv2dName == <<"C", "o", "n", "v", "2", "d">>

BatchNormName == <<"B", "a", "t", "c", "h", "N", "o", "r", "m", "2", "d">>

ReLUName == <<"R", "e", "L", "U">>

LinearName == <<"L", "i", "n", "e", "a", "r">>

Module(cls, isConv, weight, has_bias, bias) ==
    [cls |-> cls, conv |-> isConv, weight |-> weight, has_bias |-> has_bias,
     bias |-> bias]

\* nn.init.kaiming_normal_(m.weight, mode='fan_out', nonlinearity='relu')
KaimingInit(m, draw) == [m EXCEPT !.weight = draw]

NormInitShifted(m) == [m EXCEPT !.weight = 1, !.bias = m.bias + 1]

\* nn.init.constant_(m.weight, 1); nn.init.constant_(m.bias, 0)
NormInit(m) == [m EXCEPT !.weight = 1, !.bias = 0]

\* if m.bias is not None: nn.init.constant_(m.bias, 0)
LinearInit(m) == IF m.has_bias THEN [m EXCEPT !.bias = 0] ELSE m

\* the body of the loop over self.modules(), for one module
InitModule(m, draw) ==
    LET classname == m.cls
        a == IF m.conv THEN KaimingInit(m, draw) ELSE m
        b == IF Contains(<<"n", "o", "r", "m">>, Lower(classname))
             THEN NormInit(a) ELSE a
    IN IF Contains(<<"l", "i", "n", "e", "a", "r">>, Lower(classname))
       THEN LinearInit(b) ELSE b

ParamVals == {0, 1, 2}

DrawVals == {-1, 1, 3}

initOthers == <<tfpad, tfpadCall, resblk, resCall, dense, denseCall, ups, net>>

\* weights_init(): every module of the network, in one pass
WeightsInit ==
    /\ initCalls < MaxInitCalls
    /\ \E draws \in [1..Len(layers) -> DrawVals] :
         /\ \A i \in 1..Len(layers) : ~layers[i].conv => draws[i] = 1
         /\ layers' = [i \in 1..Len(layers) |-> InitModule(layers[i], draws[i])]
    /\ initCalls' = initCalls + 1
    /\ afterFirst' = IF initCalls = 0 THEN layers' ELSE afterFirst
    /\ UNCHANGED initOthers

\* a network of a convolution, a batch norm, an activation and a linear
\* layer, with any parameter values
InitInit ==
    /\ \E cw \in ParamVals, nw \in ParamVals, nb \in ParamVals,
          lw \in ParamVals, lb \in ParamVals, lhas \in BOOLEAN :
         layers = <<Module(Conv2dName, TRUE, cw, FALSE, 0),
                    Module(BatchNormName, FALSE, nw, TRUE, nb),
                    Module(ReLUName, FALSE, 0, FALSE, 0),
                    Module(LinearName, FALSE, lw, lhas, IF lhas THEN lb ELSE 0)>>
    /\ initCalls = 0 /\ afterFirst = <<>>
    /\ tfpad = Idle /\ tfpadCall = Idle /\ resblk = Idle /\ resCall = Idle
    /\ dense = Idle /\ denseCall = Idle /\ ups = Idle /\ net = Idle

NextInit == WeightsInit

SpecInit == InitInit /\ [][NextInit]_vars

-----------------------------------------------------------------------------
(* C8: a second weights_init call leaves every parameter as the first call  *)
(* left it; in particular every normalization layer has scale 1, shift 0.  *)

IsNorm(m) == Contains(<<"n", "o", "r", "m">>, Lower(m.cls))

\* the claim as stated: every parameter, convolution weights included
C8_AllParamsSame == initCalls >= 2 => layers = afterFirst

\* as amended: every parameter but the convolution weights, which are
\* drawn afresh on each call
C8_NonConvSame ==
    initCalls >= 2 =>
        \A i \in 1..Len(layers) :
            /\ ~layers[i].conv => layers[i] = afterFirst[i]
            /\ layers[i].conv => [layers[i] EXCEPT !.weight = 0]
                                  = [afterFirst[i] EXCEPT !.weight = 0]
            /\ IsNorm(layers[i]) => (layers[i].weight = 1 /\ layers[i].bias = 0)

\* two calls made on a norm layer that started away from (1, 0), the second
\* call drawing another convolution weight than the first
C8_Witness ==
    /\ initCalls = 2
    /\ layers[1].weight # afterFirst[1].weight
    /\ layers[2].weight = 1 /\ layers[2].bias = 0
    /\ layers[4].has_bias /\ layers[4].bias = 0

=============================================================================
